---- MODULE Spec2Model ----
(***************************************************************************)
(* State-machine model of the reward_system program                        *)
(* (programs/reward-system/src/lib.rs): reward pools, user accounts, the   *)
(* token accounts they move tokens between, and the six instructions.      *)
(*                                                                         *)
(* Every instruction is one atomic step: the account constraints of its    *)
(* #[derive(Accounts)] struct are validated first, then the handler runs,  *)
(* and the accounts it wrote are kept only if it returned Ok.  For each    *)
(* instruction X, X_call is what a call returns in the current state and   *)
(* the accounts it leaves, and the action X applies it.                    *)
(*                                                                         *)
(* Addresses.  A RewardPool lives at the address derived from              *)
(* ("reward_pool", authority) and a UserAccount at the one derived from    *)
(* ("user_account", authority), so both are indexed by a key of Keys.      *)
(* The vault of a pool and the token account of a wallet are the           *)
(* associated token accounts of the (single) mint.                         *)
(***************************************************************************)
EXTENDS Integers, Sequences, FiniteSets, TLC

\* ------------------------------------------------------------------ bounds
\* Largest value of the unsigned counters (u64::MAX scaled down so that the
\* checked_mul / checked_add failures are reachable).
U64_MAX == 3
\* The clock source advances in steps of TickStep seconds, MaxTicks times
\* (MaxTicksPools times where several pools are deployed).
TickStep == 1800
MaxTicks == 4
MaxTicksPools == 2
ClockStart == 1800
\* Tokens minted into a vault per funding step, and the mint's total supply.
FundAmount == 2
MaxSupply == 3

\* -------------------------------------------------------- program constants
SecondsPerHour == 3600

\* ------------------------------------------------------------- identities
Keys == {"k1", "k2"}

\* Option<T>: None is the empty sequence, Some(v) the one-element sequence.
None == << >>
Some(v) == << v >>
IsSome(o) == o # None
Unwrap(o) == o[1]

\* The one mint of the model.
Mint == "mint"

\* The token accounts of the mint: the vault of each pool and the
\* associated token account of each wallet.
VaultOf(p) == << "vault", p >>
AtaOf(k) == << "ata", k >>
TokenAccounts == { VaultOf(p) : p \in Keys } \cup { AtaOf(k) : k \in Keys }

VARIABLES
    clock,          \* Clock::get()?.unix_timestamp
    reward_pool,    \* [Keys -> RewardPool record], by pool authority
    user_account,   \* [Keys -> UserAccount record], by user authority
    token_balance,  \* [TokenAccounts -> amount]
    registered_in   \* history: the pool each user's register_user named

vars == << clock, reward_pool, user_account, token_balance, registered_in >>

\* An account that was never initialised (no data at its address).
NoPool ==
    [ initialized |-> FALSE, authority |-> "", mint |-> "", vault |-> << >>,
      reward_rate_per_hour |-> 0,
      min_claim_interval_hours |-> 0, max_daily_reward |-> 0,
      total_distributed |-> 0, participant_count |-> 0, is_active |-> FALSE,
      created_at |-> 0 ]

NoUser ==
    [ initialized |-> FALSE, authority |-> "", total_earned |-> 0,
      total_claims |-> 0, last_claim_timestamp |-> 0,
      registration_timestamp |-> 0, is_active |-> FALSE ]

\* ------------------------------------------------------------- arithmetic
\* u64::checked_mul / u64::checked_add: None on overflow.
checked_mul(a, b) == IF a * b > U64_MAX THEN None ELSE Some(a * b)
checked_add(a, b) == IF a + b > U64_MAX THEN None ELSE Some(a + b)

\* i64 division truncates toward zero.
TruncDiv(a, b) == IF a >= 0 THEN a \div b ELSE -((-a) \div b)
\* `as u64` of an i64: two's complement reinterpretation.
AsU64(x) == IF x >= 0 THEN x ELSE x + U64_MAX + 1

Min(a, b) == IF a <= b THEN a ELSE b

\* token::transfer of the SPL token program between two distinct accounts:
\* fails, changing nothing, when the source holds less than the amount.
token_transfer(bal, from, to, amount) ==
    IF bal[from] < amount
    THEN [ ok |-> FALSE, bal |-> bal ]
    ELSE [ ok |-> TRUE,
           bal |-> [bal EXCEPT ![from] = @ - amount, ![to] = @ + amount] ]

Supply == token_balance[VaultOf("k1")] + token_balance[VaultOf("k2")]
          + token_balance[AtaOf("k1")] + token_balance[AtaOf("k2")]

\* What a call returns (result, value) and the accounts it leaves.
Call(result, value, pools, users, bal) ==
    [ result |-> result, value |-> value, pools |-> pools, users |-> users,
      bal |-> bal ]

\* A call that is rejected leaves every account as it was.
Rejected(result) == Call(result, 0, reward_pool, user_account, token_balance)

\* The accounts of a call become the accounts of the program.
Apply(call) ==
    /\ reward_pool' = call.pools
    /\ user_account' = call.users
    /\ token_balance' = call.bal

Init ==
    /\ clock = ClockStart
    /\ reward_pool = [ k \in Keys |-> NoPool ]
    /\ user_account = [ k \in Keys |-> NoUser ]
    /\ token_balance = [ a \in TokenAccounts |-> 0 ]
    /\ registered_in = [ k \in Keys |-> "" ]

\* ------------------------------------------------------------ environment
\* The clock source: non-decreasing wall-clock time.
Tick(ticks) ==
    /\ clock + TickStep <= ClockStart + ticks * TickStep
    /\ clock' = clock + TickStep
    /\ UNCHANGED << reward_pool, user_account, token_balance, registered_in >>

\* Tokens arrive in a pool's vault from outside the program.
CanFund(p) == reward_pool[p].initialized /\ Supply + FundAmount <= MaxSupply

fund_vault_call(p) ==
    Call("Ok", FundAmount, reward_pool, user_account,
         [token_balance EXCEPT ![VaultOf(p)] = @ + FundAmount])

FundVault(p) ==
    /\ CanFund(p)
    /\ Apply(fund_vault_call(p))
    /\ UNCHANGED << clock, registered_in >>

\* ---------------------------------------------------------- initialize_pool
initialize_pool_handler(authority, rate, interval, max_reward, now) ==
    [ initialized |-> TRUE,
      authority |-> authority,
      mint |-> Mint,
      vault |-> VaultOf(authority),
      reward_rate_per_hour |-> rate,
      min_claim_interval_hours |-> interval,
      max_daily_reward |-> max_reward,
      total_distributed |-> 0,
      participant_count |-> 0,
      is_active |-> TRUE,
      created_at |-> now ]

\* InitializePool: `init` of the pool account fails when it already exists.
InitializePoolAccounts(signer) ==
    IF reward_pool[signer].initialized THEN "AccountAlreadyInUse" ELSE "Ok"

initialize_pool_call(signer, rate, interval, max_reward) ==
    LET v == InitializePoolAccounts(signer) IN
    IF v # "Ok" THEN Rejected(v)
    ELSE Call("Ok", 0,
              [reward_pool EXCEPT ![signer] =
                  initialize_pool_handler(signer, rate, interval, max_reward, clock)],
              user_account, token_balance)

initialize_pool(signer, rate, interval, max_reward) ==
    /\ Apply(initialize_pool_call(signer, rate, interval, max_reward))
    /\ UNCHANGED << clock, registered_in >>

\* ------------------------------------------------------------ register_user
\* Variant: the registration is not counted.
register_user_handler_uncounted(authority, pool, now) ==
    [ result |-> "Ok",
      user |-> [ initialized |-> TRUE, authority |-> authority,
                 total_earned |-> 0, total_claims |-> 0,
                 last_claim_timestamp |-> 0, registration_timestamp |-> now,
                 is_active |-> TRUE ],
      pool |-> pool ]

\* Variant: the account is created inactive.
register_user_handler_inactive(authority, pool, now) ==
    [ result |-> "Ok",
      user |-> [ initialized |-> TRUE, authority |-> authority,
                 total_earned |-> 0, total_claims |-> 0,
                 last_claim_timestamp |-> 0, registration_timestamp |-> now,
                 is_active |-> FALSE ],
      pool |-> [pool EXCEPT !.participant_count = Min(@ + 1, U64_MAX)] ]

\* The handler: the accounts as it leaves them, and its result.  The unwrap
\* of checked_add panics on overflow.
register_user_handler(authority, pool, now) ==
    LET user == [ initialized |-> TRUE,
                  authority |-> authority,
                  total_earned |-> 0,
                  total_claims |-> 0,
                  last_claim_timestamp |-> 0,
                  registration_timestamp |-> now,
                  is_active |-> TRUE ]
        count == checked_add(pool.participant_count, 1)
    IN  IF count = None
        THEN [ result |-> "Panic", user |-> user, pool |-> pool ]
        ELSE [ result |-> "Ok", user |-> user,
               pool |-> [pool EXCEPT !.participant_count = Unwrap(count)] ]

\* RegisterUser: the user account is created at ("user_account", authority)
\* and must not exist yet; the pool is any existing RewardPool.
RegisterUserAccounts(signer, p) ==
    IF user_account[signer].initialized THEN "AccountAlreadyInUse"
    ELSE IF ~reward_pool[p].initialized THEN "AccountNotInitialized"
    ELSE "Ok"

register_user_call(signer, p) ==
    LET v == RegisterUserAccounts(signer, p)
        r == register_user_handler(signer, reward_pool[p], clock)
    IN  IF v # "Ok" THEN Rejected(v)
        ELSE IF r.result # "Ok" THEN Rejected(r.result)
        ELSE Call("Ok", 0, [reward_pool EXCEPT ![p] = r.pool],
                  [user_account EXCEPT ![signer] = r.user], token_balance)

register_user(signer, p) ==
    /\ Apply(register_user_call(signer, p))
    /\ registered_in' = IF register_user_call(signer, p).result = "Ok"
                        THEN [registered_in EXCEPT ![signer] = p]
                        ELSE registered_in
    /\ UNCHANGED clock

\* -------------------------------------------------------- calculate_rewards
\* Lines 69-74: whole hours since the last claim, or since registration.
calculate_hours_since_last_claim(user, now) ==
    IF user.last_claim_timestamp = 0
    THEN AsU64(TruncDiv(now - user.registration_timestamp, SecondsPerHour))
    ELSE AsU64(TruncDiv(now - user.last_claim_timestamp, SecondsPerHour))

\* Lines 83-86: None where the unwrap of checked_mul panics.
calculate_reward_amount(hours_since_last_claim, pool) ==
    LET product == checked_mul(hours_since_last_claim, pool.reward_rate_per_hour)
    IN  IF product = None THEN None
        ELSE Some(Min(Unwrap(product), pool.max_daily_reward))

calculate_rewards_handler(pool, user, now) ==
    LET hours_since_last_claim == calculate_hours_since_last_claim(user, now)
        reward_amount == calculate_reward_amount(hours_since_last_claim, pool)
    IN  IF ~pool.is_active THEN [ result |-> "PoolNotActive", value |-> 0 ]
        ELSE IF ~user.is_active THEN [ result |-> "UserNotActive", value |-> 0 ]
        ELSE IF ~(hours_since_last_claim >= pool.min_claim_interval_hours)
             THEN [ result |-> "ClaimTooSoon", value |-> 0 ]
        ELSE IF reward_amount = None THEN [ result |-> "Panic", value |-> 0 ]
        ELSE [ result |-> "Ok", value |-> Unwrap(reward_amount) ]

\* CalculateRewards / ClaimRewards: the user account is the signer's, the
\* pool is any existing RewardPool; nothing ties the one to the other.
CalculateRewardsAccounts(signer, p) ==
    IF ~user_account[signer].initialized THEN "AccountNotInitialized"
    ELSE IF ~reward_pool[p].initialized THEN "AccountNotInitialized"
    ELSE "Ok"

\* Variant: the user account is written back with the accrual clock reset.
calculate_rewards_call_resetting(signer, p) ==
    LET v == CalculateRewardsAccounts(signer, p)
        r == calculate_rewards_handler(reward_pool[p], user_account[signer], clock)
    IN  IF v # "Ok" THEN Rejected(v)
        ELSE Call(r.result, r.value, reward_pool,
                  [user_account EXCEPT ![signer].last_claim_timestamp = clock],
                  token_balance)

\* Neither account is `mut`: nothing is written back.
calculate_rewards_call(signer, p) ==
    LET v == CalculateRewardsAccounts(signer, p)
        r == calculate_rewards_handler(reward_pool[p], user_account[signer], clock)
    IN  IF v # "Ok" THEN Rejected(v)
        ELSE Call(r.result, r.value, reward_pool, user_account, token_balance)

calculate_rewards(signer, p) ==
    /\ Apply(calculate_rewards_call(signer, p))
    /\ UNCHANGED << clock, registered_in >>

\* ------------------------------------------------------------ claim_rewards
\* Variant: the hours are always counted from registration.
claim_hours_since_registration(user, now) ==
    AsU64(TruncDiv(now - user.registration_timestamp, SecondsPerHour))

\* Lines 105-109.
claim_hours_since_last_claim(user, now) ==
    IF user.last_claim_timestamp = 0
    THEN AsU64(TruncDiv(now - user.registration_timestamp, SecondsPerHour))
    ELSE AsU64(TruncDiv(now - user.last_claim_timestamp, SecondsPerHour))

\* Variant: a product out of range falls back to max_daily_reward.
claim_reward_amount_saturating(hours_since_last_claim, pool) ==
    LET product == checked_mul(hours_since_last_claim, pool.reward_rate_per_hour)
    IN  IF product = None THEN Some(pool.max_daily_reward)
        ELSE Some(Min(Unwrap(product), pool.max_daily_reward))

\* Variant: the product is not capped at max_daily_reward.
claim_reward_amount_uncapped(hours_since_last_claim, pool) ==
    checked_mul(hours_since_last_claim, pool.reward_rate_per_hour)

\* Lines 116-119: None where the unwrap of checked_mul panics.
claim_reward_amount(hours_since_last_claim, pool) ==
    LET product == checked_mul(hours_since_last_claim, pool.reward_rate_per_hour)
    IN  IF product = None THEN None
        ELSE Some(Min(Unwrap(product), pool.max_daily_reward))

\* Variant: an amount of zero is paid out like any other.
claim_rewards_require_paying_zero(pool, user, hours, reward_amount, expected_amount) ==
    IF ~pool.is_active THEN "PoolNotActive"
    ELSE IF ~user.is_active THEN "UserNotActive"
    ELSE IF ~(hours >= pool.min_claim_interval_hours) THEN "ClaimTooSoon"
    ELSE IF reward_amount = None THEN "Panic"
    ELSE IF ~(expected_amount = Unwrap(reward_amount)) THEN "AmountMismatch"
    ELSE "Ok"

\* Variant: the expected amount is accepted within a tolerance of one.
claim_rewards_require_tolerant(pool, user, hours, reward_amount, expected_amount) ==
    IF ~pool.is_active THEN "PoolNotActive"
    ELSE IF ~user.is_active THEN "UserNotActive"
    ELSE IF ~(hours >= pool.min_claim_interval_hours) THEN "ClaimTooSoon"
    ELSE IF reward_amount = None THEN "Panic"
    ELSE IF ~(expected_amount - Unwrap(reward_amount) \in {-1, 0, 1})
         THEN "AmountMismatch"
    ELSE IF ~(Unwrap(reward_amount) > 0) THEN "NoRewardsAvailable"
    ELSE "Ok"

\* Lines 101-127: the require! checks (and the unwrap), in program order.
claim_rewards_require(pool, user, hours, reward_amount, expected_amount) ==
    IF ~pool.is_active THEN "PoolNotActive"
    ELSE IF ~user.is_active THEN "UserNotActive"
    ELSE IF ~(hours >= pool.min_claim_interval_hours) THEN "ClaimTooSoon"
    ELSE IF reward_amount = None THEN "Panic"
    ELSE IF ~(expected_amount = Unwrap(reward_amount)) THEN "AmountMismatch"
    ELSE IF ~(Unwrap(reward_amount) > 0) THEN "NoRewardsAvailable"
    ELSE "Ok"

\* The outcome of the handler: its result, the amount it paid, and the
\* accounts as it leaves them when it returns.
ClaimOutcome(result, amount, pool, user, bal) ==
    [ result |-> result, value |-> amount, pool |-> pool, user |-> user,
      bal |-> bal ]

\* Variant: total_earned is overwritten with the amount of this claim.
claim_rewards_settle_overwriting(pool, user, bal, vault, to, reward_amount, now) ==
    LET xfer == token_transfer(bal, vault, to, reward_amount)
    IN  IF ~xfer.ok THEN ClaimOutcome("TransferFailed", 0, pool, user, bal)
        ELSE ClaimOutcome("Ok", reward_amount,
                 [pool EXCEPT !.total_distributed = Min(@ + reward_amount, U64_MAX)],
                 [user EXCEPT !.total_earned = reward_amount,
                              !.total_claims = Min(@ + 1, U64_MAX),
                              !.last_claim_timestamp = now],
                 xfer.bal)

\* Variant: the time of the claim is not stored.
claim_rewards_settle_unstamped(pool, user, bal, vault, to, reward_amount, now) ==
    LET xfer == token_transfer(bal, vault, to, reward_amount)
    IN  IF ~xfer.ok THEN ClaimOutcome("TransferFailed", 0, pool, user, bal)
        ELSE ClaimOutcome("Ok", reward_amount,
                 [pool EXCEPT !.total_distributed = Min(@ + reward_amount, U64_MAX)],
                 [user EXCEPT !.total_earned = Min(@ + reward_amount, U64_MAX),
                              !.total_claims = Min(@ + 1, U64_MAX)],
                 xfer.bal)

\* Variant: total_distributed is rewritten from the claimant's own total
\* (the increments of the other users are lost).
claim_rewards_settle_lost_update(pool, user, bal, vault, to, reward_amount, now) ==
    LET xfer == token_transfer(bal, vault, to, reward_amount)
    IN  IF ~xfer.ok THEN ClaimOutcome("TransferFailed", 0, pool, user, bal)
        ELSE ClaimOutcome("Ok", reward_amount,
                 [pool EXCEPT !.total_distributed =
                     Min(user.total_earned + reward_amount, U64_MAX)],
                 [user EXCEPT !.total_earned = Min(@ + reward_amount, U64_MAX),
                              !.total_claims = Min(@ + 1, U64_MAX),
                              !.last_claim_timestamp = now],
                 xfer.bal)

\* Variant: a successful claim deactivates the user account.
claim_rewards_settle_deactivating(pool, user, bal, vault, to, reward_amount, now) ==
    LET xfer == token_transfer(bal, vault, to, reward_amount)
    IN  IF ~xfer.ok THEN ClaimOutcome("TransferFailed", 0, pool, user, bal)
        ELSE ClaimOutcome("Ok", reward_amount,
                 [pool EXCEPT !.total_distributed = Min(@ + reward_amount, U64_MAX)],
                 [user EXCEPT !.total_earned = Min(@ + reward_amount, U64_MAX),
                              !.total_claims = Min(@ + 1, U64_MAX),
                              !.last_claim_timestamp = now,
                              !.is_active = FALSE],
                 xfer.bal)

\* Variant: the result of the transfer is dropped instead of propagated.
claim_rewards_settle_unchecked(pool, user, bal, vault, to, reward_amount, now) ==
    LET xfer == token_transfer(bal, vault, to, reward_amount)
    IN  ClaimOutcome("Ok", reward_amount,
            [pool EXCEPT !.total_distributed = Min(@ + reward_amount, U64_MAX)],
            [user EXCEPT !.total_earned = Min(@ + reward_amount, U64_MAX),
                         !.total_claims = Min(@ + 1, U64_MAX),
                         !.last_claim_timestamp = now],
            xfer.bal)

\* Lines 129-157: the transfer, then the user and pool counters.
claim_rewards_settle(pool, user, bal, vault, to, reward_amount, now) ==
    LET xfer == token_transfer(bal, vault, to, reward_amount)
        earned == checked_add(user.total_earned, reward_amount)
        claims == checked_add(user.total_claims, 1)
        distributed == checked_add(pool.total_distributed, reward_amount)
    IN  IF ~xfer.ok THEN ClaimOutcome("TransferFailed", 0, pool, user, bal)
        ELSE IF earned = None THEN ClaimOutcome("Panic", 0, pool, user, xfer.bal)
        ELSE IF claims = None
             THEN ClaimOutcome("Panic", 0, pool,
                      [user EXCEPT !.total_earned = Unwrap(earned)], xfer.bal)
        ELSE IF distributed = None
             THEN ClaimOutcome("Panic", 0, pool,
                      [user EXCEPT !.total_earned = Unwrap(earned),
                                   !.total_claims = Unwrap(claims),
                                   !.last_claim_timestamp = now], xfer.bal)
        ELSE ClaimOutcome("Ok", reward_amount,
                 [pool EXCEPT !.total_distributed = Unwrap(distributed)],
                 [user EXCEPT !.total_earned = Unwrap(earned),
                              !.total_claims = Unwrap(claims),
                              !.last_claim_timestamp = now],
                 xfer.bal)

claim_rewards_handler(pool, user, bal, vault, to, expected_amount, now) ==
    LET hours_since_last_claim == claim_hours_since_last_claim(user, now)
        reward_amount == claim_reward_amount(hours_since_last_claim, pool)
        checks == claim_rewards_require(pool, user, hours_since_last_claim,
                                        reward_amount, expected_amount)
    IN  IF checks # "Ok" THEN ClaimOutcome(checks, 0, pool, user, bal)
        ELSE claim_rewards_settle(pool, user, bal, vault, to,
                                  Unwrap(reward_amount), now)

ClaimRewardsAccounts(signer, p) ==
    IF ~user_account[signer].initialized THEN "AccountNotInitialized"
    ELSE IF ~reward_pool[p].initialized THEN "AccountNotInitialized"
    ELSE "Ok"

\* Variant: a claim restarts the accrual clock of every UserAccount.
claim_rewards_call_restarting_all(signer, p, expected_amount) ==
    LET v == ClaimRewardsAccounts(signer, p)
        r == claim_rewards_handler(reward_pool[p], user_account[signer],
                                   token_balance, VaultOf(p), AtaOf(signer),
                                   expected_amount, clock)
    IN  IF v # "Ok" THEN Rejected(v)
        ELSE IF r.result # "Ok" THEN Rejected(r.result)
        ELSE Call("Ok", r.value, [reward_pool EXCEPT ![p] = r.pool],
                  [ u \in Keys |->
                      IF u = signer THEN r.user
                      ELSE IF user_account[u].initialized
                      THEN [user_account[u] EXCEPT !.last_claim_timestamp = clock]
                      ELSE user_account[u] ],
                  r.bal)

\* The accounts the handler wrote are kept only if it returned Ok.
claim_rewards_call(signer, p, expected_amount) ==
    LET v == ClaimRewardsAccounts(signer, p)
        r == claim_rewards_handler(reward_pool[p], user_account[signer],
                                   token_balance, VaultOf(p), AtaOf(signer),
                                   expected_amount, clock)
    IN  IF v # "Ok" THEN Rejected(v)
        ELSE IF r.result # "Ok" THEN Rejected(r.result)
        ELSE Call("Ok", r.value, [reward_pool EXCEPT ![p] = r.pool],
                  [user_account EXCEPT ![signer] = r.user], r.bal)

claim_rewards(signer, p, expected_amount) ==
    /\ Apply(claim_rewards_call(signer, p, expected_amount))
    /\ UNCHANGED << clock, registered_in >>

\* ------------------------------------------------------- update_pool_config
\* Variant: an absent field is written with the default of its type.
update_pool_config_handler_defaulting(pool, rate, interval, max_reward, active) ==
    [pool EXCEPT
        !.reward_rate_per_hour = IF IsSome(rate) THEN Unwrap(rate) ELSE 0,
        !.min_claim_interval_hours = IF IsSome(interval) THEN Unwrap(interval) ELSE 0,
        !.max_daily_reward = IF IsSome(max_reward) THEN Unwrap(max_reward) ELSE 0,
        !.is_active = IF IsSome(active) THEN Unwrap(active) ELSE FALSE]

update_pool_config_handler(pool, rate, interval, max_reward, active) ==
    LET p1 == IF IsSome(rate)
              THEN [pool EXCEPT !.reward_rate_per_hour = Unwrap(rate)] ELSE pool
        p2 == IF IsSome(interval)
              THEN [p1 EXCEPT !.min_claim_interval_hours = Unwrap(interval)] ELSE p1
        p3 == IF IsSome(max_reward)
              THEN [p2 EXCEPT !.max_daily_reward = Unwrap(max_reward)] ELSE p2
        p4 == IF IsSome(active)
              THEN [p3 EXCEPT !.is_active = Unwrap(active)] ELSE p3
    IN  p4

\* Variant: neither has_one = authority nor the seeds are checked.
UpdatePoolConfigAccounts_unchecked(signer, p) ==
    IF ~reward_pool[p].initialized THEN "AccountNotInitialized" ELSE "Ok"

\* UpdatePoolConfig / EmergencyWithdraw: the pool account is the one at
\* ("reward_pool", signer) and has_one = authority.
UpdatePoolConfigAccounts(signer, p) ==
    IF ~reward_pool[p].initialized THEN "AccountNotInitialized"
    ELSE IF reward_pool[p].authority # signer THEN "ConstraintHasOne"
    ELSE IF p # signer THEN "ConstraintSeeds"
    ELSE "Ok"

update_pool_config_call(signer, p, rate, interval, max_reward, active) ==
    LET v == UpdatePoolConfigAccounts(signer, p) IN
    IF v # "Ok" THEN Rejected(v)
    ELSE Call("Ok", 0,
              [reward_pool EXCEPT ![p] =
                  update_pool_config_handler(reward_pool[p], rate, interval,
                                             max_reward, active)],
              user_account, token_balance)

update_pool_config(signer, p, rate, interval, max_reward, active) ==
    /\ Apply(update_pool_config_call(signer, p, rate, interval, max_reward, active))
    /\ UNCHANGED << clock, registered_in >>

\* ------------------------------------------------------- emergency_withdraw
emergency_withdraw_handler(pool, bal, vault, destination, amount) ==
    LET xfer == token_transfer(bal, vault, destination, amount) IN
    IF ~xfer.ok THEN [ result |-> "TransferFailed", bal |-> bal ]
    ELSE [ result |-> "Ok", bal |-> xfer.bal ]

EmergencyWithdrawAccounts(signer, p) ==
    IF ~reward_pool[p].initialized THEN "AccountNotInitialized"
    ELSE IF reward_pool[p].authority # signer THEN "ConstraintHasOne"
    ELSE IF p # signer THEN "ConstraintSeeds"
    ELSE "Ok"

\* Variant: the withdrawal is counted as distributed.
emergency_withdraw_call_counting(signer, p, amount, destination) ==
    LET v == EmergencyWithdrawAccounts(signer, p)
        r == emergency_withdraw_handler(reward_pool[p], token_balance,
                                        VaultOf(p), destination, amount)
    IN  IF v # "Ok" THEN Rejected(v)
        ELSE IF r.result # "Ok" THEN Rejected(r.result)
        ELSE Call("Ok", amount,
                  [reward_pool EXCEPT ![p].total_distributed =
                      Min(@ + amount, U64_MAX)],
                  user_account, r.bal)

\* The pool account is not `mut`: only the token accounts are written.
emergency_withdraw_call(signer, p, amount, destination) ==
    LET v == EmergencyWithdrawAccounts(signer, p)
        r == emergency_withdraw_handler(reward_pool[p], token_balance,
                                        VaultOf(p), destination, amount)
    IN  IF v # "Ok" THEN Rejected(v)
        ELSE IF r.result # "Ok" THEN Rejected(r.result)
        ELSE Call("Ok", amount, reward_pool, user_account, r.bal)

\* The destination is any other token account of the mint.
emergency_withdraw(signer, p, amount, destination) ==
    /\ destination # VaultOf(p)
    /\ Apply(emergency_withdraw_call(signer, p, amount, destination))
    /\ UNCHANGED << clock, registered_in >>

\* ------------------------------------------------------------------- inputs
Rates == {1, 2}
Intervals == {0, 1}
MaxRewards == {1, 3}

\* The argument lists update_pool_config is called with: nothing present,
\* each field alone (with either value), and all four present.
UpdateInputs ==
    { << None, None, None, None >>,
      << None, None, None, Some(FALSE) >>, << None, None, None, Some(TRUE) >>,
      << Some(1), None, None, None >>, << Some(2), None, None, None >>,
      << None, Some(0), None, None >>, << None, Some(1), None, None >>,
      << None, None, Some(1), None >>, << None, None, Some(3), None >>,
      << Some(2), Some(0), Some(3), Some(TRUE) >>,
      << Some(1), Some(1), Some(1), Some(FALSE) >> }

\* One deployment: k1 creates the pool, both keys take part in it.
Next ==
    \/ Tick(MaxTicks)
    \/ \E p \in Keys : FundVault(p)
    \/ \E r \in Rates, i \in Intervals, m \in MaxRewards :
          initialize_pool("k1", r, i, m)
    \/ \E s \in Keys, p \in Keys : register_user(s, p)
    \/ \E s \in Keys, p \in Keys : calculate_rewards(s, p)
    \/ \E s \in Keys, p \in Keys, e \in 0 .. U64_MAX : claim_rewards(s, p, e)
    \/ \E s \in Keys, p \in Keys, u \in UpdateInputs :
          update_pool_config(s, p, u[1], u[2], u[3], u[4])
    \/ \E s \in Keys, p \in Keys, x \in 1 .. FundAmount, d \in TokenAccounts :
          emergency_withdraw(s, p, x, d)

Spec == Init /\ [][Next]_vars

\* Several deployments: every key creates a pool of its own, with one
\* configuration and the updates that switch it off, on, and lower it.
PoolsUpdateInputs ==
    { << None, None, None, Some(FALSE) >>, << None, None, None, Some(TRUE) >>,
      << Some(1), Some(0), Some(1), None >> }

NextPools ==
    \/ Tick(MaxTicksPools)
    \/ \E p \in Keys : FundVault(p)
    \/ \E s \in Keys : initialize_pool(s, 2, 1, 3)
    \/ \E s \in Keys, p \in Keys : register_user(s, p)
    \/ \E s \in Keys, p \in Keys : calculate_rewards(s, p)
    \/ \E s \in Keys, p \in Keys, e \in 0 .. U64_MAX : claim_rewards(s, p, e)
    \/ \E s \in Keys, p \in Keys, u \in PoolsUpdateInputs :
          update_pool_config(s, p, u[1], u[2], u[3], u[4])
    \/ \E s \in Keys, p \in Keys, x \in 1 .. FundAmount, d \in TokenAccounts :
          emergency_withdraw(s, p, x, d)

SpecPools == Init /\ [][NextPools]_vars

\* One deployment whose configuration is never changed again: k1 creates
\* the pool, nobody updates or drains it, and the clock source keeps
\* advancing (as far as the clock of the model goes).
LiveIntervals == {0, 1, 2}
LiveCaps == {1, 2}

NextLive ==
    \/ Tick(MaxTicks)
    \/ FundVault("k1")
    \/ \E r \in Rates, i \in LiveIntervals, m \in LiveCaps :
          initialize_pool("k1", r, i, m)
    \/ \E s \in Keys : register_user(s, "k1")
    \/ \E s \in Keys : calculate_rewards(s, "k1")
    \/ \E s \in Keys, e \in 0 .. U64_MAX : claim_rewards(s, "k1", e)

SpecLive == Init /\ [][NextLive]_vars /\ WF_vars(Tick(MaxTicks))

\* ================================================================ properties
\* The accounts of the program: everything but the clock and the history.
accounts == << reward_pool, user_account, token_balance >>

\* The UserAccounts that were registered against pool p.
UsersOf(p) ==
    { u \in Keys : user_account[u].initialized /\ registered_in[u] = p }

RECURSIVE SumEarned(_)
SumEarned(S) ==
    IF S = {} THEN 0
    ELSE LET u == CHOOSE x \in S : TRUE
         IN  user_account[u].total_earned + SumEarned(S \ {u})

\* C1 (counter conservation): in every reachable state, for every pool P,
\* P.total_distributed equals the sum of total_earned over the UserAccounts
\* registered against P.
C1_CounterConservation ==
    \A p \in Keys :
        reward_pool[p].total_distributed = SumEarned(UsersOf(p))

\* The inputs the properties range over.
ExpectedAmounts == 0 .. U64_MAX

\* The current accounts, in the shape a call leaves them.
Same(call) ==
    /\ call.pools = reward_pool
    /\ call.users = user_account
    /\ call.bal = token_balance

\* Both accounts of a calculate_rewards / claim_rewards call exist.
Valid(s, p) == user_account[s].initialized /\ reward_pool[p].initialized

\* The elapsed whole hours of the specification at time now:
\* floor((now - registration) / 3600) for a user who never claimed,
\* floor((now - last claim) / 3600) otherwise.
ElapsedHoursAt(s, now) ==
    IF user_account[s].last_claim_timestamp = 0
    THEN (now - user_account[s].registration_timestamp) \div 3600
    ELSE (now - user_account[s].last_claim_timestamp) \div 3600

ElapsedHours(s) == ElapsedHoursAt(s, clock)

\* min(elapsed_hours * rate, max_daily_reward) under p's current configuration.
CappedAmountAt(s, p, now) ==
    LET product == ElapsedHoursAt(s, now) * reward_pool[p].reward_rate_per_hour
        cap == reward_pool[p].max_daily_reward
    IN  IF product < cap THEN product ELSE cap

CappedAmount(s, p) == CappedAmountAt(s, p, clock)

\* A quote exists at time now: the pool and the user are active, the
\* interval has elapsed and the product fits the counter.
QuotableAt(s, p, now) ==
    /\ Valid(s, p)
    /\ reward_pool[p].is_active
    /\ user_account[s].is_active
    /\ now >= user_account[s].registration_timestamp
    /\ ElapsedHoursAt(s, now) >= reward_pool[p].min_claim_interval_hours
    /\ ElapsedHoursAt(s, now) * reward_pool[p].reward_rate_per_hour <= U64_MAX

Quotable(s, p) == QuotableAt(s, p, clock)

\* C2 (atomic claim): a claim_rewards call that is rejected, for whatever
\* reason, or whose expected amount the vault does not hold (so that its
\* transfer cannot succeed) leaves every pool, every user account and every
\* token balance as it was.
C2_AtomicClaim ==
    \A s \in Keys, p \in Keys, e \in ExpectedAmounts :
        ( \/ claim_rewards_call(s, p, e).result # "Ok"
          \/ token_balance[VaultOf(p)] < e )
        => Same(claim_rewards_call(s, p, e))

\* A claim whose checks all pass is rejected by the token transfer.
C2_TransferFails ==
    \E s \in Keys, p \in Keys, e \in ExpectedAmounts :
        /\ Quotable(s, p)
        /\ e = CappedAmount(s, p)
        /\ token_balance[VaultOf(p)] < e
        /\ claim_rewards_call(s, p, e).result = "TransferFailed"

\* C3 (cap law): whenever calculate_rewards returns an amount it is
\* min(elapsed_hours * rate, max_daily_reward), at most max_daily_reward;
\* and a claim_rewards that succeeds moves exactly that amount, the one
\* calculate_rewards returns in the same state, from the vault to the user.
C3_CapLaw ==
    \A s \in Keys, p \in Keys :
        /\ calculate_rewards_call(s, p).result = "Ok"
           => /\ calculate_rewards_call(s, p).value = CappedAmount(s, p)
              /\ calculate_rewards_call(s, p).value <= reward_pool[p].max_daily_reward
        /\ \A e \in ExpectedAmounts :
              claim_rewards_call(s, p, e).result = "Ok"
              => /\ calculate_rewards_call(s, p).result = "Ok"
                 /\ calculate_rewards_call(s, p).value = CappedAmount(s, p)
                 /\ claim_rewards_call(s, p, e).value = CappedAmount(s, p)
                 /\ CappedAmount(s, p) <= reward_pool[p].max_daily_reward
                 /\ claim_rewards_call(s, p, e).bal[VaultOf(p)] =
                       token_balance[VaultOf(p)] - CappedAmount(s, p)
                 /\ claim_rewards_call(s, p, e).bal[AtaOf(s)] =
                       token_balance[AtaOf(s)] + CappedAmount(s, p)

\* A user was paid the cap by a claim whose uncapped product exceeds it.
C3_CappedClaimPaid ==
    \E s \in Keys, p \in Keys :
        /\ Valid(s, p)
        /\ user_account[s].total_claims = 1
        /\ user_account[s].last_claim_timestamp = clock
        /\ user_account[s].total_earned = reward_pool[p].max_daily_reward
        /\ token_balance[AtaOf(s)] = reward_pool[p].max_daily_reward
        /\ reward_pool[p].total_distributed = reward_pool[p].max_daily_reward
        /\ ((clock - user_account[s].registration_timestamp) \div 3600)
             * reward_pool[p].reward_rate_per_hour > reward_pool[p].max_daily_reward

\* C4 (claim-interval gate): for an active pool and an active user, while
\* the elapsed whole hours are fewer than min_claim_interval_hours both
\* calculate_rewards and claim_rewards fail with ClaimTooSoon and change
\* nothing.
TooSoon(s, p) ==
    /\ Valid(s, p)
    /\ reward_pool[p].is_active
    /\ user_account[s].is_active
    /\ ElapsedHours(s) < reward_pool[p].min_claim_interval_hours

C4_ClaimIntervalGate ==
    \A s \in Keys, p \in Keys :
        TooSoon(s, p)
        => /\ calculate_rewards_call(s, p).result = "ClaimTooSoon"
           /\ Same(calculate_rewards_call(s, p))
           /\ \A e \in ExpectedAmounts :
                 /\ claim_rewards_call(s, p, e).result = "ClaimTooSoon"
                 /\ Same(claim_rewards_call(s, p, e))

\* A user who has claimed is refused within the interval of that claim.
C4_RejectedAfterClaim ==
    \E s \in Keys, p \in Keys :
        /\ TooSoon(s, p)
        /\ user_account[s].total_claims >= 1
        /\ clock > user_account[s].last_claim_timestamp
        /\ claim_rewards_call(s, p, 1).result = "ClaimTooSoon"

Quote(s, p) ==
    [ result |-> calculate_rewards_call(s, p).result,
      value |-> calculate_rewards_call(s, p).value ]

\* What calculate_rewards returns to s on pool p once the call c is applied
\* (at the same time).
QuoteAfter(c, s, p) ==
    IF ~(c.users[s].initialized /\ c.pools[p].initialized)
    THEN [ result |-> "AccountNotInitialized", value |-> 0 ]
    ELSE calculate_rewards_handler(c.pools[p], c.users[s], clock)

\* Every step the program and its environment can take in the current
\* state without the clock advancing, as the call it applies.
AllUpdateInputs == UpdateInputs \cup PoolsUpdateInputs

AllCalls ==
    { fund_vault_call(p) : p \in { q \in Keys : CanFund(q) } }
    \cup { initialize_pool_call(k, r, i, m) :
              k \in Keys, r \in Rates, i \in Intervals, m \in MaxRewards }
    \cup { register_user_call(k, p) : k \in Keys, p \in Keys }
    \cup { calculate_rewards_call(k, p) : k \in Keys, p \in Keys }
    \cup { claim_rewards_call(k, p, e) :
              k \in Keys, p \in Keys, e \in ExpectedAmounts }
    \cup { update_pool_config_call(k, p, u[1], u[2], u[3], u[4]) :
              k \in Keys, p \in Keys, u \in AllUpdateInputs }
    \cup UNION { { emergency_withdraw_call(k, p, x, d) :
                      k \in Keys, x \in 1 .. FundAmount,
                      d \in TokenAccounts \ {VaultOf(p)} } : p \in Keys }

\* calculate_rewards writes nothing, whatever it returns.
QuoteReadOnly ==
    \A s \in Keys, p \in Keys : Same(calculate_rewards_call(s, p))

\* The call c is no successful claim of s.
NoClaimBy(c, s) == c.users[s].total_claims = user_account[s].total_claims

\* The call c changes the configuration of pool p.
Reconfigures(c, p) ==
    << c.pools[p].reward_rate_per_hour, c.pools[p].min_claim_interval_hours,
       c.pools[p].max_daily_reward, c.pools[p].is_active >>
    # << reward_pool[p].reward_rate_per_hour,
         reward_pool[p].min_claim_interval_hours,
         reward_pool[p].max_daily_reward, reward_pool[p].is_active >>

\* C6 (idempotent, read-only quoting), as stated: calculate_rewards never
\* changes an account, and two calls for the same user with no elapsed time
\* and no intervening claim return the same result: no step other than a
\* claim of that user changes, while the clock stands, what the call returns.
C6_IdempotentQuoting ==
    /\ QuoteReadOnly
    /\ \A c \in AllCalls : \A s \in Keys, p \in Keys :
          (Valid(s, p) /\ NoClaimBy(c, s)) => QuoteAfter(c, s, p) = Quote(s, p)

\* C6, amended: ... with no elapsed time, no intervening claim by that
\* user and no intervening update_pool_config of that pool.
C6_IdempotentQuotingAmended ==
    /\ QuoteReadOnly
    /\ \A c \in AllCalls : \A s \in Keys, p \in Keys :
          (Valid(s, p) /\ NoClaimBy(c, s) /\ ~Reconfigures(c, p))
          => QuoteAfter(c, s, p) = Quote(s, p)

\* calculate_rewards returns an amount to a user who has claimed before,
\* and returns it again.
C6_QuoteReturned ==
    \E s \in Keys, p \in Keys :
        /\ user_account[s].total_claims >= 1
        /\ Quote(s, p).result = "Ok"
        /\ Quote(s, p).value > 0
        /\ QuoteAfter(calculate_rewards_call(s, p), s, p) = Quote(s, p)

\* Argument lists of update_pool_config with every combination of absent
\* and present fields, the least and the greatest value of the type among
\* the present ones.
Opt(S) == { None } \cup { Some(x) : x \in S }
AnyUpdateInputs ==
    Opt({0, 1, U64_MAX}) \X Opt({0, 1, U64_MAX}) \X Opt({0, 1, U64_MAX})
        \X Opt(BOOLEAN)

\* The value of a field after an update: the argument where present.
Updated(arg, old) == IF arg = << >> THEN old ELSE arg[1]

\* C7 (partial configuration update): an update_pool_config by the pool's
\* authority replaces exactly the fields whose argument is present, whatever
\* the value, and leaves the absent ones, authority, mint, vault,
\* total_distributed, participant_count, created_at, every other pool, every
\* UserAccount and every token balance unchanged.
C7_PartialUpdate ==
    \A p \in Keys, u \in AllUpdateInputs \cup AnyUpdateInputs :
        reward_pool[p].initialized
        => LET c == update_pool_config_call(reward_pool[p].authority, p,
                                            u[1], u[2], u[3], u[4])
               old == reward_pool[p]
               new == c.pools[p]
           IN  /\ c.result = "Ok"
               /\ new.reward_rate_per_hour = Updated(u[1], old.reward_rate_per_hour)
               /\ new.min_claim_interval_hours
                     = Updated(u[2], old.min_claim_interval_hours)
               /\ new.max_daily_reward = Updated(u[3], old.max_daily_reward)
               /\ new.is_active = Updated(u[4], old.is_active)
               /\ new.authority = old.authority
               /\ new.mint = old.mint
               /\ new.vault = old.vault
               /\ new.total_distributed = old.total_distributed
               /\ new.participant_count = old.participant_count
               /\ new.created_at = old.created_at
               /\ new.initialized
               /\ \A q \in Keys \ {p} : c.pools[q] = reward_pool[q]
               /\ c.users = user_account
               /\ c.bal = token_balance

\* A pool that has paid rewards was switched off by an update that names
\* is_active alone: its other fields and its counters are as before.
C7_SwitchedOff ==
    \E p \in Keys :
        /\ reward_pool[p].initialized
        /\ ~reward_pool[p].is_active
        /\ reward_pool[p].total_distributed > 0
        /\ reward_pool[p].participant_count > 0
        /\ LET c == update_pool_config_call(p, p, None, None, None, Some(TRUE))
           IN  /\ c.result = "Ok"
               /\ c.pools[p] = [reward_pool[p] EXCEPT !.is_active = TRUE]

\* The claim counters of a user account.
ClaimCounters(user) ==
    << user.total_earned, user.total_claims, user.last_claim_timestamp >>

\* C8 (pool deactivation gate): while a pool is inactive every
\* calculate_rewards and claim_rewards on it fails with PoolNotActive and
\* pays nothing, and no step changes its total_distributed or the
\* total_earned, total_claims and last_claim_timestamp of its users.
C8_DeactivationGate ==
    \A p \in Keys :
        (reward_pool[p].initialized /\ ~reward_pool[p].is_active)
        => /\ \A s \in Keys :
                 user_account[s].initialized
                 => /\ calculate_rewards_call(s, p).result = "PoolNotActive"
                    /\ \A e \in ExpectedAmounts :
                          /\ claim_rewards_call(s, p, e).result = "PoolNotActive"
                          /\ Same(claim_rewards_call(s, p, e))
           /\ \A c \in AllCalls :
                 /\ c.pools[p].total_distributed = reward_pool[p].total_distributed
                 /\ \A u \in UsersOf(p) :
                       ClaimCounters(c.users[u]) = ClaimCounters(user_account[u])

\* C9 (emergency withdrawal frame): an emergency_withdraw of X by the
\* pool's authority, X being in the vault, succeeds whether or not the pool
\* is active, moves X from the vault to the destination and changes no
\* other balance, no pool and no user account.
C9_EmergencyWithdrawFrame ==
    \A p \in Keys, x \in 1 .. MaxSupply :
        (reward_pool[p].initialized /\ token_balance[VaultOf(p)] >= x)
        => \A d \in TokenAccounts \ {VaultOf(p)} :
              LET c == emergency_withdraw_call(reward_pool[p].authority, p, x, d)
              IN  /\ c.result = "Ok"
                  /\ c.value = x
                  /\ c.bal[VaultOf(p)] = token_balance[VaultOf(p)] - x
                  /\ c.bal[d] = token_balance[d] + x
                  /\ \A a \in TokenAccounts \ {VaultOf(p), d} :
                        c.bal[a] = token_balance[a]
                  /\ c.pools = reward_pool
                  /\ c.users = user_account

\* Tokens have left the vault of a pool for a wallet although nobody ever
\* claimed, and the inactive pool can be withdrawn from again.
C9_WithdrawnUnclaimed ==
    \E p \in Keys, k \in Keys :
        /\ reward_pool[p].initialized
        /\ ~reward_pool[p].is_active
        /\ \A q \in Keys : reward_pool[q].total_distributed = 0
        /\ \A u \in Keys : user_account[u].total_claims = 0
        /\ token_balance[AtaOf(k)] > 0
        /\ token_balance[VaultOf(p)] > 0
        /\ emergency_withdraw_call(p, p, 1, AtaOf(k)).result = "Ok"

\* The errors of the has_one and seeds constraints.
Unauthorized == { "ConstraintHasOne", "ConstraintSeeds" }

\* C10 (authority gate): an update_pool_config or emergency_withdraw on a
\* pool by any identity other than the pool's stored authority is rejected
\* by the account constraints and changes no pool, no user account and no
\* token balance.
C10_AuthorityGate ==
    \A s \in Keys, p \in Keys :
        (reward_pool[p].initialized /\ s # reward_pool[p].authority)
        => /\ \A u \in AllUpdateInputs :
                 LET c == update_pool_config_call(s, p, u[1], u[2], u[3], u[4])
                 IN  c.result \in Unauthorized /\ Same(c)
           /\ \A x \in 1 .. MaxSupply, d \in TokenAccounts \ {VaultOf(p)} :
                 LET c == emergency_withdraw_call(s, p, x, d)
                 IN  c.result \in Unauthorized /\ Same(c)

\* The authority of one pool is refused on the funded pool of another.
C10_OtherAuthorityRefused ==
    \E s \in Keys, p \in Keys :
        /\ reward_pool[p].initialized
        /\ reward_pool[s].initialized
        /\ s # reward_pool[p].authority
        /\ token_balance[VaultOf(p)] > 0
        /\ emergency_withdraw_call(s, p, 1, AtaOf(s)).result \in Unauthorized
        /\ update_pool_config_call(s, p, None, None, None, Some(FALSE)).result
             \in Unauthorized

\* A pool as initialize_pool creates it, and a user account as
\* register_user creates it, at time now.
FreshPool(pool) ==
    /\ pool.initialized
    /\ pool.total_distributed = 0
    /\ pool.participant_count = 0
    /\ pool.is_active

FreshUser(user, now) ==
    /\ user.initialized
    /\ user.total_earned = 0
    /\ user.total_claims = 0
    /\ user.last_claim_timestamp = 0
    /\ user.registration_timestamp = now
    /\ user.is_active

\* C11 (participant count): a successful initialize_pool leaves the pool
\* with total_distributed = 0, participant_count = 0 and is_active = true; a
\* successful register_user creates one UserAccount with zero counters,
\* last_claim_timestamp = 0, registration_timestamp = now and is_active =
\* true, and adds exactly 1 to the participant_count of the pool it names and
\* to no other; and in every reachable state the participant_count of every
\* pool is the number of UserAccounts registered against it.
C11_ParticipantCount ==
    /\ \A p \in Keys : reward_pool[p].participant_count = Cardinality(UsersOf(p))
    /\ \A s \in Keys, r \in Rates, i \in Intervals, m \in MaxRewards :
          LET c == initialize_pool_call(s, r, i, m)
          IN  c.result = "Ok" => FreshPool(c.pools[s])
    /\ \A s \in Keys, p \in Keys :
          LET c == register_user_call(s, p)
          IN  c.result = "Ok"
              => /\ ~user_account[s].initialized
                 /\ FreshUser(c.users[s], clock)
                 /\ c.users[s].authority = s
                 /\ \A u \in Keys \ {s} : c.users[u] = user_account[u]
                 /\ c.pools[p].participant_count
                       = reward_pool[p].participant_count + 1
                 /\ \A q \in Keys \ {p} : c.pools[q] = reward_pool[q]

\* Both participants are registered against the same pool and nobody
\* against the other one.
C11_TwoRegistered ==
    /\ \A u \in Keys : user_account[u].initialized
    /\ \E p \in Keys : reward_pool[p].participant_count = 2
    /\ \E p \in Keys : reward_pool[p].initialized
                        /\ reward_pool[p].participant_count = 0

\* A UserAccount exists for the pair (pool p, participant s).
RegisteredPair(s, p) == user_account[s].initialized /\ registered_in[s] = p

\* C12 (registration uniqueness per (pool, participant)): register_user on
\* an existing pool succeeds if and only if no UserAccount exists yet for
\* that (pool, participant) pair, so that a participant registered with one
\* pool can still register with another; a rejected registration changes
\* no account.
C12_RegistrationPerPair ==
    \A s \in Keys, p \in Keys :
        reward_pool[p].initialized
        => LET c == register_user_call(s, p)
           IN  /\ c.result = "Ok" <=> ~RegisteredPair(s, p)
               /\ c.result # "Ok" => Same(c)

\* The counters of a pool that only grow.
PoolCounters(pool) == << pool.total_distributed, pool.participant_count >>

\* Every component of the tuple a is at most that of b.
Leq(a, b) == \A i \in DOMAIN a : a[i] <= b[i]

\* C13 (claim effects and monotonic counters): a successful claim_rewards
\* paying a at time now adds exactly a to user.total_earned and to
\* pool.total_distributed, exactly 1 to user.total_claims, and sets
\* user.last_claim_timestamp = now; no step decreases total_distributed,
\* participant_count, total_earned, total_claims or last_claim_timestamp, or
\* changes created_at or registration_timestamp once the account exists.
C13_ClaimEffects ==
    /\ \A s \in Keys, p \in Keys, e \in ExpectedAmounts :
          LET c == claim_rewards_call(s, p, e)
          IN  c.result = "Ok"
              => /\ c.value = e
                 /\ c.bal[AtaOf(s)] = token_balance[AtaOf(s)] + e
                 /\ c.users[s].total_earned = user_account[s].total_earned + e
                 /\ c.users[s].total_claims = user_account[s].total_claims + 1
                 /\ c.users[s].last_claim_timestamp = clock
                 /\ c.pools[p].total_distributed
                       = reward_pool[p].total_distributed + e
    /\ \A c \in AllCalls : \A k \in Keys :
          /\ Leq(PoolCounters(reward_pool[k]), PoolCounters(c.pools[k]))
          /\ Leq(ClaimCounters(user_account[k]), ClaimCounters(c.users[k]))
          /\ reward_pool[k].initialized
             => c.pools[k].created_at = reward_pool[k].created_at
          /\ user_account[k].initialized
             => c.users[k].registration_timestamp
                   = user_account[k].registration_timestamp

\* A user has just claimed for the second time: both claims are counted in
\* the user's and in the pool's totals.
C13_ClaimedTwice ==
    \E s \in Keys, p \in Keys :
        /\ user_account[s].total_claims = 2
        /\ user_account[s].total_earned >= 2
        /\ user_account[s].last_claim_timestamp = clock
        /\ reward_pool[p].total_distributed >= user_account[s].total_earned

\* The call c is a successful claim of u.
ClaimBy(c, u) == c.users[u].total_claims > user_account[u].total_claims

\* C14 (last-claim timestamp): for every user, last_claim_timestamp is 0
\* exactly as long as the user has never successfully claimed; a successful
\* claim sets it to the time of that claim and nothing else changes it, so
\* that once non-zero it is the time of the most recent successful claim;
\* and then registration_timestamp <= last_claim_timestamp <= now.
C14_LastClaimTimestamp ==
    /\ \A u \in Keys :
          user_account[u].initialized
          => /\ user_account[u].last_claim_timestamp = 0
                <=> user_account[u].total_claims = 0
             /\ user_account[u].last_claim_timestamp # 0
                => /\ user_account[u].last_claim_timestamp
                         >= user_account[u].registration_timestamp
                   /\ user_account[u].last_claim_timestamp <= clock
    /\ \A c \in AllCalls : \A u \in Keys :
          c.users[u].last_claim_timestamp
             = IF ClaimBy(c, u) THEN clock
               ELSE user_account[u].last_claim_timestamp

\* One user claimed an hour or more after registering and time has passed
\* since, while the other is registered and has never claimed.
C14_ClaimedAndUnclaimed ==
    \E u \in Keys, w \in Keys :
        /\ user_account[u].total_claims >= 1
        /\ user_account[u].last_claim_timestamp
              >= user_account[u].registration_timestamp + SecondsPerHour
        /\ user_account[u].last_claim_timestamp < clock
        /\ user_account[w].initialized
        /\ user_account[w].total_claims = 0
        /\ user_account[w].last_claim_timestamp = 0
        /\ user_account[w].registration_timestamp < clock

\* elapsed_hours * reward_rate_per_hour is beyond the range of the counters.
ProductOverflows(s, p) ==
    ElapsedHours(s) * reward_pool[p].reward_rate_per_hour > U64_MAX

\* The checks that precede the multiplication pass.
ReachesProduct(s, p) ==
    /\ Valid(s, p)
    /\ reward_pool[p].is_active
    /\ user_account[s].is_active
    /\ ElapsedHours(s) >= reward_pool[p].min_claim_interval_hours

\* Both instructions stop with the arithmetic failure and write nothing.
AbortsOnOverflow(s, p) ==
    /\ calculate_rewards_call(s, p).result = "Panic"
    /\ Same(calculate_rewards_call(s, p))
    /\ \A e \in ExpectedAmounts :
          /\ claim_rewards_call(s, p, e).result = "Panic"
          /\ Same(claim_rewards_call(s, p, e))

\* The claim of e by s on pool p, were the counters of the two accounts
\* te (total_earned), tc (total_claims) and td (total_distributed).
ClaimWithCounters(s, p, e, te, tc, td) ==
    claim_rewards_handler(
        [reward_pool[p] EXCEPT !.total_distributed = td],
        [user_account[s] EXCEPT !.total_earned = te, !.total_claims = tc],
        token_balance, VaultOf(p), AtaOf(s), e, clock)

\* A counter that cannot hold its increment aborts the operation, and an
\* operation that does not return Ok leaves every account as it was.
CounterOverflowAborts ==
    /\ \A s \in Keys, p \in Keys, e \in ExpectedAmounts :
          (claim_rewards_call(s, p, e).result \in {"Ok", "Panic"}
              /\ ~ProductOverflows(s, p))
          => \A te \in 0 .. U64_MAX, tc \in 0 .. U64_MAX, td \in 0 .. U64_MAX :
                ClaimWithCounters(s, p, e, te, tc, td).result
                   = IF te + e > U64_MAX \/ tc + 1 > U64_MAX \/ td + e > U64_MAX
                     THEN "Panic" ELSE "Ok"
    /\ \A s \in Keys, p \in Keys, n \in 0 .. U64_MAX :
          register_user_handler(
              s, [reward_pool[p] EXCEPT !.participant_count = n], clock).result
             = IF n + 1 > U64_MAX THEN "Panic" ELSE "Ok"
    /\ \A c \in AllCalls : c.result # "Ok" => Same(c)

\* C15 (overflow aborts), as stated: whenever elapsed_hours *
\* reward_rate_per_hour exceeds the unsigned range, calculate_rewards and
\* claim_rewards fail with the arithmetic failure and change nothing; and a
\* counter increment that would exceed the range aborts the operation.
C15_OverflowAborts ==
    /\ \A s \in Keys, p \in Keys :
          (Valid(s, p) /\ ProductOverflows(s, p)) => AbortsOnOverflow(s, p)
    /\ CounterOverflowAborts

\* C15, amended: ... fail with the arithmetic failure when the pool and the
\* user are active and the claim interval has elapsed (the checks that
\* precede the multiplication), whatever max_daily_reward is.
C15_OverflowAbortsAmended ==
    /\ \A s \in Keys, p \in Keys :
          (ReachesProduct(s, p) /\ ProductOverflows(s, p))
          => AbortsOnOverflow(s, p)
    /\ CounterOverflowAborts

\* The product is out of range while the cap is small and the vault could
\* pay it: the claim of the capped amount stops with the arithmetic failure.
C15_ProductBeyondCap ==
    \E s \in Keys, p \in Keys :
        /\ ReachesProduct(s, p)
        /\ ProductOverflows(s, p)
        /\ reward_pool[p].max_daily_reward < U64_MAX
        /\ token_balance[VaultOf(p)] >= reward_pool[p].max_daily_reward
        /\ claim_rewards_call(s, p, reward_pool[p].max_daily_reward).result
              = "Panic"
        /\ calculate_rewards_call(s, p).result = "Panic"

\* The call c leaves the claim counters of every existing UserAccount but
\* (possibly) that of `except` as they are.
KeepsCounters(c, except) ==
    \A u \in Keys \ except :
        user_account[u].initialized
        => ClaimCounters(c.users[u]) = ClaimCounters(user_account[u])

\* C16 (single mutation path for user state): once a UserAccount exists, its
\* total_earned, total_claims and last_claim_timestamp are changed only by a
\* successful claim_rewards signed by its own authority: initialize_pool,
\* register_user, calculate_rewards, update_pool_config, emergency_withdraw
\* and the claims of every other participant leave them unchanged.
C16_SingleMutationPath ==
    /\ \A s \in Keys, r \in Rates, i \in Intervals, m \in MaxRewards :
          KeepsCounters(initialize_pool_call(s, r, i, m), {})
    /\ \A s \in Keys, p \in Keys :
          /\ KeepsCounters(register_user_call(s, p), {})
          /\ KeepsCounters(calculate_rewards_call(s, p), {})
    /\ \A s \in Keys, p \in Keys, u \in AllUpdateInputs :
          KeepsCounters(update_pool_config_call(s, p, u[1], u[2], u[3], u[4]), {})
    /\ \A s \in Keys, p \in Keys, x \in 1 .. MaxSupply :
          \A d \in TokenAccounts \ {VaultOf(p)} :
              KeepsCounters(emergency_withdraw_call(s, p, x, d), {})
    /\ \A s \in Keys, p \in Keys, e \in ExpectedAmounts :
          LET c == claim_rewards_call(s, p, e)
          IN  /\ KeepsCounters(c, {s})
              /\ c.result # "Ok" => KeepsCounters(c, {})

\* One participant has claimed while the other was already registered, and
\* the other's counters are still those of its registration.
C16_OtherUntouched ==
    \E u \in Keys, w \in Keys :
        /\ u # w
        /\ user_account[u].total_claims >= 1
        /\ user_account[w].initialized
        /\ user_account[w].registration_timestamp
              <= user_account[u].last_claim_timestamp
        /\ ClaimCounters(user_account[w]) = << 0, 0, 0 >>

\* The accounts as they are now, in the shape of a call.
Current == Call("Ok", 0, reward_pool, user_account, token_balance)

\* claim_rewards(s, p, e) executed (at the same time) on the accounts that
\* the call c has left.
ClaimAfter(c, s, p, e) ==
    LET r == claim_rewards_handler(c.pools[p], c.users[s], c.bal, VaultOf(p),
                                   AtaOf(s), e, clock)
    IN  IF ~(c.users[s].initialized /\ c.pools[p].initialized)
        THEN Call("AccountNotInitialized", 0, c.pools, c.users, c.bal)
        ELSE IF r.result # "Ok" THEN Call(r.result, 0, c.pools, c.users, c.bal)
        ELSE Call("Ok", r.value, [c.pools EXCEPT ![p] = r.pool],
                  [c.users EXCEPT ![s] = r.user], r.bal)

\* register_user(s, p) executed on the accounts that the call c has left.
RegisterAfter(c, s, p) ==
    LET r == register_user_handler(s, c.pools[p], clock)
    IN  IF c.users[s].initialized
        THEN Call("AccountAlreadyInUse", 0, c.pools, c.users, c.bal)
        ELSE IF ~c.pools[p].initialized
        THEN Call("AccountNotInitialized", 0, c.pools, c.users, c.bal)
        ELSE IF r.result # "Ok" THEN Call(r.result, 0, c.pools, c.users, c.bal)
        ELSE Call("Ok", 0, [c.pools EXCEPT ![p] = r.pool],
                  [c.users EXCEPT ![s] = r.user], c.bal)

\* Two calls leave the same accounts.
SameAccounts(a, b) == a.pools = b.pools /\ a.users = b.users /\ a.bal = b.bal

\* Executed on the current accounts, the two are the instructions themselves.
AfterIsCall ==
    \A s \in Keys, p \in Keys :
        /\ RegisterAfter(Current, s, p) = register_user_call(s, p)
        /\ \A e \in ExpectedAmounts :
              ClaimAfter(Current, s, p, e) = claim_rewards_call(s, p, e)

\* Both orders of the claims of u (amount eu) and w (amount ew) on pool p
\* leave the same accounts, and both amounts are counted.
ClaimsCommute(u, w, p, eu, ew) ==
    LET uw == ClaimAfter(claim_rewards_call(u, p, eu), w, p, ew)
        wu == ClaimAfter(claim_rewards_call(w, p, ew), u, p, eu)
    IN  /\ SameAccounts(uw, wu)
        /\ uw.result = "Ok"
        /\ wu.result = "Ok"
        /\ uw.pools[p].total_distributed
              = reward_pool[p].total_distributed + eu + ew

\* Both orders of the registrations of u (with pool p) and w (with pool q)
\* leave the same accounts, and each adds 1 to the count of its pool.
RegistrationsCommute(u, w, p, q) ==
    LET uw == RegisterAfter(register_user_call(u, p), w, q)
        wu == RegisterAfter(register_user_call(w, q), u, p)
    IN  /\ SameAccounts(uw, wu)
        /\ uw.result = "Ok"
        /\ wu.result = "Ok"
        /\ uw.pools[p].participant_count
              = reward_pool[p].participant_count + (IF p = q THEN 2 ELSE 1)
        /\ uw.pools[q].participant_count
              = reward_pool[q].participant_count + (IF p = q THEN 2 ELSE 1)

BothRegister ==
    \A u \in Keys, w \in Keys, p \in Keys, q \in Keys :
        ( /\ u # w
          /\ register_user_call(u, p).result = "Ok"
          /\ register_user_call(w, q).result = "Ok" )
        => RegistrationsCommute(u, w, p, q)

\* C17 (order independence of claims by different users), as stated: for
\* two distinct users whose claims on the same pool are both enabled at the
\* same time, either order of the two claim_rewards leaves the same pool and
\* the same two users, with both amounts in total_distributed; and two
\* register_user by distinct participants each add exactly 1 to
\* participant_count.
C17_OrderIndependence ==
    /\ AfterIsCall
    /\ BothRegister
    /\ \A u \in Keys, w \in Keys, p \in Keys :
          \A eu \in ExpectedAmounts, ew \in ExpectedAmounts :
              ( /\ u # w
                /\ claim_rewards_call(u, p, eu).result = "Ok"
                /\ claim_rewards_call(w, p, ew).result = "Ok" )
              => ClaimsCommute(u, w, p, eu, ew)

\* C17, amended: ... are both enabled at the same time, the vault holding at
\* least the sum of the two amounts and total_distributed having room for
\* both, either order ...
C17_OrderIndependenceAmended ==
    /\ AfterIsCall
    /\ BothRegister
    /\ \A u \in Keys, w \in Keys, p \in Keys :
          \A eu \in ExpectedAmounts, ew \in ExpectedAmounts :
              ( /\ u # w
                /\ claim_rewards_call(u, p, eu).result = "Ok"
                /\ claim_rewards_call(w, p, ew).result = "Ok"
                /\ token_balance[VaultOf(p)] >= eu + ew
                /\ reward_pool[p].total_distributed + eu + ew <= U64_MAX )
              => ClaimsCommute(u, w, p, eu, ew)

\* Both participants registered with the pool at the same time and both
\* have claimed from it at the same, current, time: the pool counts two
\* participants and the sum of what the two have earned.
C17_BothClaimedAtOnce ==
    \E p \in Keys :
        /\ reward_pool[p].participant_count = 2
        /\ user_account["k1"].registration_timestamp
              = user_account["k2"].registration_timestamp
        /\ \A u \in Keys : /\ user_account[u].last_claim_timestamp = clock
                           /\ user_account[u].total_earned >= 1
        /\ reward_pool[p].total_distributed
              = user_account["k1"].total_earned + user_account["k2"].total_earned

\* The time the accrual of s counts from: the last successful claim, or the
\* registration of a user who has never claimed.
AccrualStart(s) ==
    IF user_account[s].last_claim_timestamp = 0
    THEN user_account[s].registration_timestamp
    ELSE user_account[s].last_claim_timestamp

\* The larger of two numbers.
Max(a, b) == IF a >= b THEN a ELSE b

\* C18 (minimum spacing of payouts): a claim_rewards of a user succeeds at
\* time t2 only if floor((t2 - t1) / 3600) >= max(1, min_claim_interval_hours
\* of the pool at t2), t1 being the time of the user's previous successful
\* claim, or of the registration for the first claim; in particular a user
\* who has just been paid is not paid again at the same timestamp, whatever
\* the interval and the pool.
C18_MinimumSpacing ==
    \A s \in Keys, p \in Keys, e \in ExpectedAmounts :
        LET c == claim_rewards_call(s, p, e)
        IN  c.result = "Ok"
            => /\ AccrualStart(s) < clock
               /\ (clock - AccrualStart(s)) \div SecondsPerHour
                     >= Max(1, reward_pool[p].min_claim_interval_hours)
               /\ \A q \in Keys, f \in ExpectedAmounts :
                     ClaimAfter(c, s, q, f).result # "Ok"

\* A user has just been paid for the second time by a pool whose interval
\* is 0, and a further claim at this timestamp finds nothing to pay.
C18_SecondPayout ==
    \E s \in Keys, p \in Keys :
        /\ user_account[s].total_claims = 2
        /\ user_account[s].last_claim_timestamp = clock
        /\ reward_pool[p].is_active
        /\ reward_pool[p].min_claim_interval_hours = 0
        /\ reward_pool[p].total_distributed >= 2
        /\ claim_rewards_call(s, p, 0).result = "NoRewardsAvailable"

\* C19 (user activity flag is constant): register_user sets is_active and
\* no instruction clears it: every UserAccount that exists is active, every
\* call leaves it so, and neither calculate_rewards nor claim_rewards (nor
\* any other call) fails with UserNotActive.
C19_UserAlwaysActive ==
    /\ \A u \in Keys : user_account[u].initialized => user_account[u].is_active
    /\ \A c \in AllCalls :
          /\ c.result # "UserNotActive"
          /\ \A u \in Keys : c.users[u].initialized => c.users[u].is_active

\* A user who has been paid is still active after the pool was switched
\* off: its quote and its claim are refused for the pool's sake.
C19_ActiveAfterClaim ==
    \E s \in Keys, p \in Keys :
        /\ user_account[s].total_claims >= 1
        /\ user_account[s].is_active
        /\ reward_pool[p].initialized
        /\ ~reward_pool[p].is_active
        /\ calculate_rewards_call(s, p).result = "PoolNotActive"
        /\ claim_rewards_call(s, p, 1).result = "PoolNotActive"

\* The last time the clock of the model shows.
ClockEnd == ClockStart + MaxTicks * TickStep

\* The hypotheses of eventual claimability on the current state: s is
\* registered, pool p is active with a rate and a cap of at least 1, and its
\* vault holds at least max_daily_reward.
Claimant(s, p) ==
    /\ Valid(s, p)
    /\ reward_pool[p].is_active
    /\ reward_pool[p].reward_rate_per_hour >= 1
    /\ reward_pool[p].max_daily_reward >= 1
    /\ token_balance[VaultOf(p)] >= reward_pool[p].max_daily_reward

\* The first time at which a whole hour, and the interval of pool p, have
\* elapsed for s, and whether the clock gets there.
OpeningTime(s, p) ==
    AccrualStart(s)
       + Max(1, reward_pool[p].min_claim_interval_hours) * SecondsPerHour

ClockReaches(s, p) == OpeningTime(s, p) <= ClockEnd

\* A claim_rewards of s on p with the current quote as expected_amount
\* succeeds.
Claimable(s, p) ==
    /\ calculate_rewards_call(s, p).result = "Ok"
    /\ claim_rewards_call(s, p, calculate_rewards_call(s, p).value).result = "Ok"

\* The counters have room for one more claim of up to max_daily_reward.
CountersHaveRoom(s, p) ==
    /\ user_account[s].total_earned + reward_pool[p].max_daily_reward <= U64_MAX
    /\ user_account[s].total_claims + 1 <= U64_MAX
    /\ reward_pool[p].total_distributed + reward_pool[p].max_daily_reward
          <= U64_MAX

\* The product of the hours and the rate is in range now, and at the time
\* the claim opens if it has not opened yet.
ProductInRange(s, p) ==
    Max(ElapsedHours(s), Max(1, reward_pool[p].min_claim_interval_hours))
       * reward_pool[p].reward_rate_per_hour <= U64_MAX

\* The accrual of s has just started: s has just registered or has just
\* been paid.
JustStarted(s) == AccrualStart(s) = clock

Starts(s, p) == Claimant(s, p) /\ ClockReaches(s, p) /\ JustStarted(s)

ClaimableOrUnfunded(s, p) == Claimable(s, p) \/ ~Claimant(s, p)

\* C20 (eventual claimability), as stated: for a registered user of a pool
\* that stays active with rate >= 1 and cap >= 1, whose configuration no
\* longer changes and whose vault holds at least max_daily_reward, if the
\* clock keeps advancing, a claim_rewards with the current quote as
\* expected_amount eventually succeeds: after the registration, and again
\* after every successful claim, whatever attempts fail in between.
C20_EventualClaimability ==
    \A s \in Keys, p \in Keys :
        [](Starts(s, p) => <>ClaimableOrUnfunded(s, p))

\* The hypotheses of the amended statement, and what it promises.
InRangeClaimant(s, p) ==
    Claimant(s, p) /\ CountersHaveRoom(s, p)

OpensInRange(s, p) ==
    InRangeClaimant(s, p) /\ ProductInRange(s, p) /\ ClockReaches(s, p)

ClaimableOrOut(s, p) == Claimable(s, p) \/ ~InRangeClaimant(s, p)

\* C20, amended: ... eventually succeeds, from every state in which the
\* counters have room for one more claim and the product of the hours and
\* the rate is within the unsigned range now and when the claim opens, for
\* as long as the counters keep that room.
C20_EventualClaimabilityAmended ==
    \A s \in Keys, p \in Keys :
        [](OpensInRange(s, p) => <>ClaimableOrOut(s, p))

\* A user who has been paid before can be paid again: the vault still
\* covers the cap and the counters have room.
C20_ClaimableAgain ==
    \E s \in Keys, p \in Keys :
        /\ user_account[s].total_claims >= 1
        /\ Claimant(s, p)
        /\ CountersHaveRoom(s, p)
        /\ Claimable(s, p)
====
